---- MODULE Spec2Model ----
(***************************************************************************)
(* tinyconfig 3.0.0 (src/src/tinyconfig.c, src/include/tinyconfig.h).      *)
(*                                                                         *)
(* The library keeps every key/value pair in one static arena `buffer`.    *)
(* Each pair owns a slot of TC_LINE_TOTAL_SIZE bytes: a size_t header that *)
(* holds the offset of the value, then TC_LINE_MAX_SIZE bytes of           *)
(* "key=value\0".  The model keeps the arena as a flat byte array, so that *)
(* a write one past a slot lands where the C code puts it: in the header   *)
(* of the next slot.  Characters are their ASCII codes.                    *)
(*                                                                         *)
(* The build modelled is the default one (NDEBUG not defined): a failed    *)
(* assert aborts the process.                                              *)
(***************************************************************************)
EXTENDS Integers, Sequences, FiniteSets, TLC

VARIABLES
    mem,      \* the static arena `buffer` (tinyconfig.c:358), byte by byte
    config,   \* the caller's tc_config: [buffer, size]
    fs,       \* the file system: path -> [exists, data]
    proc,     \* "running" | "aborted" (assert failed) | "crashed" (UB trapped)
    ub,       \* TRUE once the process has executed undefined behaviour
    op,       \* the last library call and its arguments
    ret,      \* what that call returned
    last_load,  \* what the latest tc_load_config on `config` returned:
                \* "none", "ok", "failed"
    other,      \* a second tc_config of the same program: [buffer, size]
    open_files, \* FILE streams the library has opened and not closed
    heap        \* blocks the library has malloc'ed and not freed

vars == <<mem, config, fs, proc, ub, op, ret, last_load, other, open_files, heap>>

----------------------------------------------------------------------------
(* Build-time parameters.  Both macros are #ifndef-guarded in tinyconfig.h *)
(* (defaults 20 and 64); the model builds the library with small values so *)
(* that the capacity and line-size boundaries are within reach.            *)

TC_CONFIG_MAX_SIZE == 2
TC_LINE_MAX_SIZE == 5

(* sizeof(size_t) and sizeof(void * ) on the LP64 targets the code names.  *)
TC_HEADER_SIZE == 8
PTR_SIZE == 8

TC_LINE_TOTAL_SIZE == TC_LINE_MAX_SIZE + TC_HEADER_SIZE

(* `void *buffer[TC_CONFIG_MAX_SIZE * TC_LINE_TOTAL_SIZE]`: an array of    *)
(* pointers, so the arena is PTR_SIZE times larger than the slots need.    *)
BUFFER_BYTES == PTR_SIZE * (TC_CONFIG_MAX_SIZE * TC_LINE_TOTAL_SIZE)

(* The part of the arena the state keeps: the slots and one slot's worth   *)
(* of what follows them.  The bytes beyond are zero at start, and only a   *)
(* tc_set_value that has already run into undefined behaviour in            *)
(* key_compare can write there (a match without it has offset <=           *)
(* strlen(key) + 2, so the copy ends at most one byte past the slot).      *)
MODEL_BYTES == (TC_CONFIG_MAX_SIZE + 1) * TC_LINE_TOTAL_SIZE

(* Any size_t value that cannot be an offset into the arena (SIZE_MAX after *)
(* a wrap of 0 - 1, or a header whose high bytes are not zero).            *)
HUGE_SIZE == 1024 * 1024 * 1024

----------------------------------------------------------------------------
(* Characters *)

NUL == 0
TAB == 9
LF == 10
CR == 13
SP == 32
HASH == 35
MINUS == 45
DOT == 46
EQ == 61
UNDERSCORE == 95

isalpha(c) == (c >= 65 /\ c <= 90) \/ (c >= 97 /\ c <= 122)
isdigit(c) == c >= 48 /\ c <= 57

----------------------------------------------------------------------------
(* Memory *)

ZeroBuffer == [a \in 0..(MODEL_BYTES - 1) |-> 0]

ReadByte(m, addr) == IF addr < MODEL_BYTES THEN m[addr] ELSE 0

InBuffer(addr) == addr >= 0 /\ addr < BUFFER_BYTES

(* Store the bytes of `bytes` at addr, addr+1, ...; a write that does not  *)
(* stay inside the array is reported by the caller as UB.                  *)
WriteBytes(m, addr, bytes) ==
    [a \in 0..(MODEL_BYTES - 1) |->
        IF a >= addr /\ a < addr + Len(bytes) THEN bytes[a - addr + 1] ELSE m[a]]

WriteInBuffer(addr, n) == addr >= 0 /\ addr + n <= BUFFER_BYTES

(* The NUL-terminated string that starts at addr.  Reading past the end of *)
(* the array is reported by CStrOverruns.                                  *)
RECURSIVE CStr(_, _)
CStr(m, addr) ==
    IF ~InBuffer(addr) THEN <<>>
    ELSE IF ReadByte(m, addr) = NUL THEN <<>>
    ELSE <<ReadByte(m, addr)>> \o CStr(m, addr + 1)

CStrOverruns(m, addr) == ~InBuffer(addr + Len(CStr(m, addr)))

(* line_get: assert(index < TC_CONFIG_MAX_SIZE); buffer + TOTAL * index *)
line_get_ok(index) == index < TC_CONFIG_MAX_SIZE
line_get(index) == TC_LINE_TOTAL_SIZE * index

(* header_read: the address of the line text, just past the header *)
header_read(location) == location + TC_HEADER_SIZE

(* The eight little-endian bytes of a size_t below 65536 *)
SizeTBytes(n) ==
    [k \in 1..TC_HEADER_SIZE |->
        IF k = 1 THEN n % 256 ELSE IF k = 2 THEN (n \div 256) % 256 ELSE 0]

(* header_write: *header = key_value_offset *)
header_write(m, location, key_value_offset) ==
    WriteBytes(m, location, SizeTBytes(key_value_offset))

(* line_offset_get: *((size_t * ) line_get(config, index)) *)
line_offset_get(m, index) ==
    LET a == line_get(index) IN
    IF \E k \in 2..(TC_HEADER_SIZE - 1) : m[a + k] # 0
    THEN HUGE_SIZE
    ELSE m[a] + 256 * m[a + 1]

(* size_t subtraction offset - 1: wraps to SIZE_MAX at 0 *)
SizeMinusOne(n) == IF n = 0 THEN HUGE_SIZE ELSE n - 1

----------------------------------------------------------------------------
(* String manipulation *)

(* key_compare(key, key_end, compared): "T" equal over key_end bytes, "F" a *)
(* byte differs, "UB" the loop read past key's terminator or past the      *)
(* arena before it found a difference.  `key` is a C string: reading       *)
(* key[Len(key)] gives its NUL, reading further is out of bounds.          *)
RECURSIVE key_compare_from(_, _, _, _, _)
key_compare_from(m, key, key_end, compared, i) ==
    IF i >= key_end THEN "T"
    ELSE IF i > Len(key) \/ ~InBuffer(compared + i) THEN "UB"
    ELSE IF (IF i = Len(key) THEN NUL ELSE key[i + 1]) # ReadByte(m, compared + i)
    THEN "F"
    ELSE key_compare_from(m, key, key_end, compared, i + 1)

key_compare(m, key, key_end, compared) ==
    key_compare_from(m, key, key_end, compared, 0)

(* string_trim_end: last position at or before `position` that holds no    *)
(* space; source is the file buffer, indexed from 0.                       *)
RECURSIVE string_trim_end(_, _)
string_trim_end(source, position) ==
    IF source[position + 1] # SP THEN position
    ELSE IF position = 0 THEN HUGE_SIZE
    ELSE string_trim_end(source, position - 1)

(* string_copy_slice: target[0..end-start] = source[start..end] *)
string_copy_slice(m, source, start, end, target) ==
    WriteBytes(m, target, SubSeq(source, start + 1, end + 1))

(* string_copy_slice_null: the same, then a terminating NUL *)
string_copy_slice_null(m, source, start, end, target) ==
    WriteBytes(m, target, SubSeq(source, start + 1, end + 1) \o <<NUL>>)

----------------------------------------------------------------------------
(* Lexer: tc_parse_config *)

(* file_buffer[i]: the bytes read, then the NUL tc_load_config appends.   *)
(* The buffer holds Len(file) + 1 bytes; index Len(file) + 1 and beyond   *)
(* are outside the allocation.                                             *)
FileByte(file, i) == IF i < Len(file) THEN file[i + 1] ELSE NUL

(* `while ((c = file_buffer[pos+1]) != '\n' || c == '\0') pos++;` and     *)
(* `while ((c = file_buffer[pos+1]) != '\n') pos++;`: neither stops at the *)
(* terminator.  The result is the final pos, or -1 when the loop runs off  *)
(* the end of the allocation.                                              *)
RECURSIVE SkipToNewline(_, _)
SkipToNewline(file, pos) ==
    IF pos + 1 > Len(file) THEN -1
    ELSE IF FileByte(file, pos + 1) = LF THEN pos
    ELSE SkipToNewline(file, pos + 1)

(* The value loop: stop before '\r', '\n', '\0' or '#'. *)
RECURSIVE ScanValue(_, _)
ScanValue(file, pos) ==
    IF FileByte(file, pos + 1) \in {CR, LF, NUL, HASH} THEN pos
    ELSE ScanValue(file, pos + 1)

(* `while (isalpha((c = file_buffer[pos+1])) || c == '_') pos++;` *)
RECURSIVE ScanAlphaKey(_, _)
ScanAlphaKey(file, pos) ==
    IF isalpha(FileByte(file, pos + 1)) \/ FileByte(file, pos + 1) = UNDERSCORE
    THEN ScanAlphaKey(file, pos + 1)
    ELSE pos

(* `while (isdigit(c = file_buffer[pos+1])) pos++;` *)
RECURSIVE ScanDigitKey(_, _)
ScanDigitKey(file, pos) ==
    IF isdigit(FileByte(file, pos + 1)) THEN ScanDigitKey(file, pos + 1) ELSE pos

(* IsValueStart with the test forgotten for punctuation: a lexer that     *)
(* takes any printable character that is not a separator as a value start. *)
IsValueStartLoose(c) == c > SP /\ c # HASH /\ c # EQ

(* The characters that may start a value (tinyconfig.c:243). *)
IsValueStart(c) == isalpha(c) \/ isdigit(c) \/ c = MINUS \/ c = DOT

(* The lexer's locals and what it has done to the store so far.           *)
(* status: "run", "ok" (return true), "error" (goto error), "abort" (an   *)
(* assert failed); oob is set when a skip loop read past the file buffer.  *)
ParseStart(m) ==
    [mem |-> m, size |-> 0, pos |-> 0, current_line |-> 0, key_size |-> 0,
     reading_value |-> FALSE, status |-> "run", oob |-> FALSE]

(* case '#' *)
ParseComment(p, file) ==
    LET e == SkipToNewline(file, p.pos) IN
    IF e = -1
    THEN [p EXCEPT !.status = "ok", !.oob = TRUE]
    ELSE [p EXCEPT !.pos = e + 1]

(* default, reading_value: lines 243-285 *)
ParseValue(p, file) ==
    LET start_pos == p.pos
        c == FileByte(file, p.pos)
        pos == ScanValue(file, p.pos)
        value_size == pos - start_pos
        value_start == header_read(line_get(p.current_line)) + p.key_size + 2
        trim_end_position == string_trim_end(file, pos)
    IN
    IF ~IsValueStart(c) THEN [p EXCEPT !.status = "error"]
    ELSE IF value_size + p.key_size + 2 >= TC_LINE_MAX_SIZE
    THEN [p EXCEPT !.status = "error", !.pos = pos]
    ELSE IF ~line_get_ok(p.current_line)
    THEN [p EXCEPT !.status = "abort", !.pos = pos]
    ELSE [p EXCEPT
            !.mem = string_copy_slice_null(p.mem, file, start_pos,
                                           trim_end_position, value_start),
            !.current_line = p.current_line + 1,
            !.size = p.size + 1,
            !.reading_value = FALSE,
            !.pos = pos + 1]

(* default, not reading_value: lines 289-338 *)
ParseKey(p, file) ==
    LET start_pos == p.pos
        c == FileByte(file, p.pos)
        pos == IF isalpha(c) THEN ScanAlphaKey(file, p.pos)
               ELSE ScanDigitKey(file, p.pos)
        key_size == pos - start_pos
        current_location == line_get(p.current_line)
        key_location == header_read(current_location)
        m1 == header_write(p.mem, current_location, key_size + 2)
        m2 == string_copy_slice(m1, file, start_pos, pos, key_location)
        m3 == WriteBytes(m2, key_location + key_size + 1, <<EQ>>)
    IN
    IF ~(isalpha(c) \/ isdigit(c))
    THEN [p EXCEPT !.status = "error",
                   !.oob = (SkipToNewline(file, p.pos) = -1)]
    ELSE IF p.size = TC_CONFIG_MAX_SIZE
    THEN [p EXCEPT !.status = "error", !.key_size = key_size, !.pos = pos]
    ELSE IF key_size >= TC_LINE_MAX_SIZE
    THEN [p EXCEPT !.status = "error", !.key_size = key_size, !.pos = pos]
    ELSE [p EXCEPT !.mem = m3, !.key_size = key_size, !.pos = pos + 1]

(* One turn of the for loop at line 219, its pos++ included. *)
ParseStep(p, file) ==
    LET c == FileByte(file, p.pos) IN
    IF c \in {CR, LF, SP, TAB} THEN [p EXCEPT !.pos = p.pos + 1]
    ELSE IF c = HASH THEN ParseComment(p, file)
    ELSE IF c = EQ THEN [p EXCEPT !.reading_value = TRUE, !.pos = p.pos + 1]
    ELSE IF p.reading_value THEN ParseValue(p, file)
    ELSE ParseKey(p, file)

RECURSIVE ParseLoop(_, _)
ParseLoop(p, file) ==
    IF p.status # "run" THEN p
    ELSE IF p.pos >= Len(file) THEN [p EXCEPT !.status = "ok"]
    ELSE ParseLoop(ParseStep(p, file), file)

(* tc_parse_config(config, file_buffer, file_bytes_read), config->size = 0 *)
tc_parse_config(m, file) == ParseLoop(ParseStart(m), file)

(* The arena addresses one turn of the loop stores to.  The value branch   *)
(* (lines 273-281) stores the trimmed value and a NUL from value_start on; *)
(* the key branch (lines 329-338) stores the header, the key and the '='.  *)
(* Every error and the failed assert of line_get come before the stores.   *)
ParseStepWrites(p, file) ==
    LET c == FileByte(file, p.pos)
        q == ParseStep(p, file)
        key_start == header_read(line_get(p.current_line))
    IN
    IF c \in {CR, LF, SP, TAB, HASH, EQ} \/ q.status # "run" THEN {}
    ELSE IF p.reading_value
    THEN LET value_start == key_start + p.key_size + 2
             copied == string_trim_end(file, ScanValue(file, p.pos)) - p.pos + 1
         IN value_start..(value_start + copied)
    ELSE line_get(p.current_line)..(key_start + q.key_size + 1)

(* Every store of the rest of the parse, with the slot it was made for *)
(* (current_line at the time).                                         *)
RECURSIVE ParseWrites(_, _)
ParseWrites(p, file) ==
    IF p.status # "run" \/ p.pos >= Len(file) THEN {}
    ELSE {[slot |-> p.current_line, addr |-> a] : a \in ParseStepWrites(p, file)}
         \cup ParseWrites(ParseStep(p, file), file)

----------------------------------------------------------------------------
(* tinyconfig.h: the four entry points as functions of the state *)

(* tc_load_config with `config->buffer = buffer; config->size = 0;` moved  *)
(* to the top of the function, before the file is opened and read.         *)
tc_load_config_reset_first(m, cfg, file) ==
    IF ~file.exists
    THEN [mem |-> m, config |-> [buffer |-> "static", size |-> 0],
          ok |-> FALSE, status |-> "return", oob |-> FALSE,
          opens |-> 0, closes |-> 0, mallocs |-> 0, frees |-> 0]
    ELSE IF Len(file.data) = 0
    THEN [mem |-> m, config |-> [buffer |-> "static", size |-> 0],
          ok |-> FALSE, status |-> "return", oob |-> FALSE,
          opens |-> 1, closes |-> 0, mallocs |-> 1, frees |-> 1]
    ELSE LET p == tc_parse_config(m, file.data) IN
         [mem |-> p.mem,
          config |-> [buffer |-> "static", size |-> p.size],
          ok |-> (p.status = "ok"),
          status |-> IF p.status = "abort" THEN "abort" ELSE "return",
          oob |-> p.oob,
          opens |-> 1, closes |-> 1, mallocs |-> 1,
          frees |-> IF p.status = "abort" THEN 0 ELSE 1]

(* tc_load_config.  status "return": the call returned `ok`; "abort": an   *)
(* assert failed inside it.  oob: a skip loop of the lexer read past the   *)
(* file buffer on the way.  opens, closes: the fopen and fclose calls made *)
(* on the way; mallocs, frees: the blocks allocated and the blocks freed   *)
(* (tc_parse_config frees file_buffer on both of its exits, lines 346 and  *)
(* 350; a failed assert leaves before them).                               *)
tc_load_config(m, cfg, file) ==
    IF ~file.exists
    THEN [mem |-> m, config |-> cfg, ok |-> FALSE, status |-> "return", oob |-> FALSE,
          opens |-> 0, closes |-> 0, mallocs |-> 0, frees |-> 0]
    ELSE IF Len(file.data) = 0
    THEN [mem |-> m, config |-> cfg, ok |-> FALSE, status |-> "return", oob |-> FALSE,
          opens |-> 1, closes |-> 0, mallocs |-> 1, frees |-> 1]
    ELSE LET p == tc_parse_config(m, file.data) IN
         [mem |-> p.mem,
          config |-> [buffer |-> "static", size |-> p.size],
          ok |-> (p.status = "ok"),
          status |-> IF p.status = "abort" THEN "abort" ELSE "return",
          oob |-> p.oob,
          opens |-> 1, closes |-> 1, mallocs |-> 1,
          frees |-> IF p.status = "abort" THEN 0 ELSE 1]

(* tc_load_config when malloc returns NULL (lines 376-381): free(NULL) is  *)
(* a no-op and the function returns false.                                 *)
tc_load_config_no_memory(m, cfg, file) ==
    IF ~file.exists
    THEN [mem |-> m, config |-> cfg, ok |-> FALSE, status |-> "return", oob |-> FALSE,
          opens |-> 0, closes |-> 0, mallocs |-> 0, frees |-> 0]
    ELSE [mem |-> m, config |-> cfg, ok |-> FALSE, status |-> "return", oob |-> FALSE,
          opens |-> 1, closes |-> 0, mallocs |-> 0, frees |-> 0]

(* tc_get_value from entry i on: the set of results the call can produce. *)
(* A key_compare that runs into undefined behaviour may come out either   *)
(* way.                                                                    *)
RECURSIVE tc_get_value_from(_, _, _, _)
tc_get_value_from(m, size, key, i) ==
    IF i >= size THEN {[null |-> TRUE, addr |-> 0, ub |-> FALSE]}
    ELSE LET offset == line_offset_get(m, i)
             key_start == header_read(line_get(i))
             cmp == key_compare(m, key, SizeMinusOne(offset), key_start)
         IN
         (IF cmp \in {"T", "UB"}
          THEN {[null |-> FALSE, addr |-> key_start + offset, ub |-> (cmp = "UB")]}
          ELSE {})
         \cup
         (IF cmp \in {"F", "UB"}
          THEN {[r EXCEPT !.ub = (r.ub \/ cmp = "UB")] :
                    r \in tc_get_value_from(m, size, key, i + 1)}
          ELSE {})

tc_get_value(m, cfg, key) == tc_get_value_from(m, cfg.size, key, 0)

(* tc_set_value from entry i on, after the asserts and the length check.  *)
RECURSIVE tc_set_value_from(_, _, _, _, _)
tc_set_value_from(m, size, key, new_value, i) ==
    IF i >= size
    THEN {[mem |-> m, null |-> TRUE, addr |-> 0, ub |-> FALSE, abort |-> FALSE]}
    ELSE LET offset == line_offset_get(m, i)
             key_start == header_read(line_get(i))
             cmp == key_compare(m, key, SizeMinusOne(offset), key_start)
             value_start == key_start + offset
         IN
         (IF cmp \in {"T", "UB"}
          THEN {[mem |-> string_copy_slice_null(m, new_value, 0,
                                                Len(new_value) - 1, value_start),
                 null |-> FALSE, addr |-> value_start,
                 ub |-> (cmp = "UB"
                         \/ ~WriteInBuffer(value_start, Len(new_value) + 1)),
                 abort |-> FALSE]}
          ELSE {})
         \cup
         (IF cmp \in {"F", "UB"}
          THEN {[r EXCEPT !.ub = (r.ub \/ cmp = "UB")] :
                    r \in tc_set_value_from(m, size, key, new_value, i + 1)}
          ELSE {})

(* tc_set_value with the length check made after the copy instead of      *)
(* before it.                                                              *)
tc_set_value_late_check(m, cfg, key, new_value) ==
    IF Len(new_value) = 0 \/ Len(key) = 0
    THEN {[mem |-> m, null |-> TRUE, addr |-> 0, ub |-> FALSE, abort |-> TRUE]}
    ELSE IF Len(key) + Len(new_value) + 2 > TC_LINE_MAX_SIZE
    THEN {[r EXCEPT !.null = TRUE, !.addr = 0] :
             r \in tc_set_value_from(m, cfg.size, key, new_value, 0)}
    ELSE tc_set_value_from(m, cfg.size, key, new_value, 0)

tc_set_value(m, cfg, key, new_value) ==
    IF Len(new_value) = 0 \/ Len(key) = 0
    THEN {[mem |-> m, null |-> TRUE, addr |-> 0, ub |-> FALSE, abort |-> TRUE]}
    ELSE IF Len(key) + Len(new_value) + 2 > TC_LINE_MAX_SIZE
    THEN {[mem |-> m, null |-> TRUE, addr |-> 0, ub |-> FALSE, abort |-> FALSE]}
    ELSE tc_set_value_from(m, cfg.size, key, new_value, 0)

(* tc_save_to_file: fprintf(file, "%s\n", key_start) for every entry *)
RECURSIVE SavedText(_, _, _)
SavedText(m, size, i) ==
    IF i >= size THEN <<>>
    ELSE CStr(m, header_read(line_get(i))) \o <<LF>> \o SavedText(m, size, i + 1)

tc_save_to_file(m, cfg) == [exists |-> TRUE, data |-> SavedText(m, cfg.size, 0)]

----------------------------------------------------------------------------
(* The store as the memory layout describes it (tinyconfig.c:37-51): entry *)
(* i is the line of slot i, its header is the offset of the value, the key *)
(* is what precedes the '=' at offset - 1.                                 *)

EntryOffset(m, i) == line_offset_get(m, i)

EntryKey(m, i) ==
    LET key_start == header_read(line_get(i))
        offset == EntryOffset(m, i)
    IN IF offset < 2 \/ offset >= BUFFER_BYTES THEN <<>>
       ELSE [k \in 1..(offset - 1) |-> ReadByte(m, key_start + k - 1)]

EntryValue(m, i) == CStr(m, header_read(line_get(i)) + EntryOffset(m, i))

Entries(m, cfg) ==
    [i \in 1..cfg.size |-> <<EntryKey(m, i - 1), EntryValue(m, i - 1)>>]

(* indices of the entries whose key is exactly k *)
Matches(m, cfg, k) == {i \in 0..(cfg.size - 1) : EntryKey(m, i) = k}
Present(m, cfg, k) == Matches(m, cfg, k) # {}
FirstMatch(m, cfg, k) ==
    CHOOSE i \in Matches(m, cfg, k) : \A j \in Matches(m, cfg, k) : i <= j

----------------------------------------------------------------------------
(* The calls a program makes *)

NoArg == <<>>
Call(name, path, key, value) ==
    [name |-> name, path |-> path, key |-> key, value |-> value]
RetNone == [kind |-> "none"]
RetBool(b) == [kind |-> "bool", ok |-> b]
RetPtr(null, addr) == [kind |-> "ptr", null |-> null, addr |-> addr]

(* Undefined behaviour either goes unnoticed or traps. *)
AfterUB(happened) == IF happened THEN {"running", "crashed"} ELSE {"running"}

(* the streams a run may leave open before the model stops following it *)
MaxOpenFiles == 1

(* what a tc_load_config that produced r leaves behind *)
LoadEffects(r) ==
    /\ open_files + r.opens - r.closes <= MaxOpenFiles
    /\ open_files' = open_files + r.opens - r.closes
    /\ heap' = heap + r.mallocs - r.frees
    /\ mem' = r.mem
    /\ ub' = (ub \/ r.oob)

Load(path) ==
    /\ proc = "running"
    /\ \E r \in {tc_load_config(mem, config, fs[path])} :
       /\ LoadEffects(r)
       /\ config' = r.config
       /\ op' = Call("load", path, NoArg, NoArg)
       /\ \E next \in (IF r.status = "abort" THEN {"aborted"} ELSE AfterUB(r.oob)) :
            /\ proc' = next
            /\ ret' = IF next = "running" THEN RetBool(r.ok) ELSE RetNone
            /\ last_load' = IF next = "running" /\ r.ok THEN "ok" ELSE "failed"
    /\ UNCHANGED <<fs, other>>

(* tc_load_config(&config, path) in a process that is out of memory *)
LoadNoMemory(path) ==
    /\ proc = "running"
    /\ \E r \in {tc_load_config_no_memory(mem, config, fs[path])} :
       /\ LoadEffects(r)
       /\ config' = r.config
       /\ op' = Call("load_no_memory", path, NoArg, NoArg)
       /\ proc' = "running"
       /\ ret' = RetBool(r.ok)
       /\ last_load' = "failed"
    /\ UNCHANGED <<fs, other>>

(* tc_load_config(&other, path): the program loads its second store *)
LoadOther(path) ==
    /\ proc = "running"
    /\ \E r \in {tc_load_config(mem, other, fs[path])} :
       /\ LoadEffects(r)
       /\ other' = r.config
       /\ op' = Call("load_other", path, NoArg, NoArg)
       /\ \E next \in (IF r.status = "abort" THEN {"aborted"} ELSE AfterUB(r.oob)) :
            /\ proc' = next
            /\ ret' = IF next = "running" THEN RetBool(r.ok) ELSE RetNone
    /\ UNCHANGED <<fs, config, last_load>>

Get(key) ==
    /\ proc = "running"
    /\ \E r \in tc_get_value(mem, config, key) :
         \E next \in AfterUB(r.ub) :
            /\ proc' = next
            /\ ub' = (ub \/ r.ub)
            /\ ret' = IF next = "running" THEN RetPtr(r.null, r.addr) ELSE RetNone
    /\ op' = Call("get", "", key, NoArg)
    /\ UNCHANGED <<mem, config, fs, last_load, other, open_files, heap>>

Set(key, new_value) ==
    /\ proc = "running"
    /\ \E r \in tc_set_value(mem, config, key, new_value) :
         \E next \in (IF r.abort THEN {"aborted"} ELSE AfterUB(r.ub)) :
            /\ mem' = r.mem
            /\ proc' = next
            /\ ub' = (ub \/ r.ub)
            /\ ret' = IF next = "running" THEN RetPtr(r.null, r.addr) ELSE RetNone
    /\ op' = Call("set", "", key, new_value)
    /\ UNCHANGED <<config, fs, last_load, other, open_files, heap>>

Save(path) ==
    /\ proc = "running"
    /\ fs' = [fs EXCEPT ![path] = tc_save_to_file(mem, config)]
    /\ op' = Call("save", path, NoArg, NoArg)
    /\ ret' = RetBool(TRUE)
    /\ open_files' = (open_files + 1) - 1      \* fopen (462), fclose (472)
    /\ UNCHANGED <<mem, config, proc, ub, last_load, other, heap>>

----------------------------------------------------------------------------
(* Inputs *)

NoFile == [exists |-> FALSE, data |-> <<>>]
File(data) == [exists |-> TRUE, data |-> data]

(* Lexer specification: every file of at most MaxFileLen characters over   *)
(* LexAlphabet = a 1 = space newline # & "                                 *)
MaxFileLen == 4
LexAlphabet == {97, 49, EQ, SP, LF, HASH, 38, 34}

RECURSIVE SeqsUpTo(_, _)
SeqsUpTo(S, n) ==
    IF n = 0 THEN {<<>>}
    ELSE LET shorter == SeqsUpTo(S, n - 1) IN
         shorter \cup {Append(s, c) : s \in {t \in shorter : Len(t) = n - 1}, c \in S}

LexFiles == SeqsUpTo(LexAlphabet, MaxFileLen)

(* keys looked up: "", "a", "1", "aa", "a1" *)
LexKeys == {<<>>, <<97>>, <<49>>, <<97, 97>>, <<97, 49>>}

InitCommon ==
    /\ mem = ZeroBuffer
    /\ config = [buffer |-> "null", size |-> 0]
    /\ proc = "running"
    /\ ub = FALSE
    /\ op = Call("none", "", NoArg, NoArg)
    /\ ret = RetNone
    /\ last_load = "none"
    /\ other = [buffer |-> "null", size |-> 0]
    /\ open_files = 0
    /\ heap = 0

LexInit ==
    /\ InitCommon
    /\ \E f \in LexFiles : fs = [in |-> File(f), out |-> NoFile]

LexNext ==
    \/ Load("in")
    \/ \E k \in LexKeys : Get(k)

LexSpec == LexInit /\ [][LexNext]_vars

----------------------------------------------------------------------------
(* Store specification: a program loads a configuration file, looks keys   *)
(* up, sets values, saves to "out" and loads again.                        *)

RECURSIVE Rep(_, _)
Rep(c, n) == IF n <= 0 THEN <<>> ELSE <<c>> \o Rep(c, n - 1)

(* n lines a=1, b=1, c=1, ... *)
RECURSIVE PairLines(_)
PairLines(n) ==
    IF n <= 0 THEN <<>> ELSE PairLines(n - 1) \o <<96 + n, EQ, 49, LF>>

(* The longest value a one-letter key can be given in a file: the lexer    *)
(* rejects key + value of TC_LINE_MAX_SIZE characters or more.             *)
LongestValue == Rep(49, TC_LINE_MAX_SIZE - 2)

InputFiles == {
    <<>>,                                                 \* zero bytes
    <<LF>>,                                               \* one blank line
    <<HASH, 99, LF>>,                                     \* #c
    <<97, EQ, 49>>,                                       \* a=1 (no newline)
    <<97, EQ, 49, LF, 97, 98, EQ, 50, LF>>,               \* a=1 / ab=2
    <<97, 98, EQ, 50, LF, 97, EQ, 49, LF>>,               \* ab=2 / a=1
    <<97, EQ, 49, LF, 97, EQ, 50, LF>>,                   \* a=1 / a=2
    <<HASH, 99, LF, LF, 98, EQ, 120, SP, 121, LF>>,       \* #c / / b=x y
    <<98, SP, EQ, SP, 120, SP, HASH, 99, LF>>,            \* b = x #c
    <<97, EQ>> \o LongestValue \o <<LF, 98, EQ, 49, LF>>, \* a=11..1 / b=1
    <<EQ, 122, LF>>,                                      \* =z
    <<110, EQ, 34, 120, 34, LF>>,                         \* n="x"
    <<97, EQ, 38, 49, LF>>,                               \* a=&1
    <<97, EQ, 49, 38, LF>>,                               \* a=1&
    <<97, 49, EQ, 49, LF>>,                               \* a1=1
    PairLines(TC_CONFIG_MAX_SIZE),                        \* a full store
    PairLines(TC_CONFIG_MAX_SIZE + 1),                    \* one pair too many
    PairLines(TC_CONFIG_MAX_SIZE - 1)
        \o <<122, EQ>> \o LongestValue \o <<LF>>,         \* last slot: z=11..1
    PairLines(TC_CONFIG_MAX_SIZE) \o <<EQ, 122, LF>>,     \* full store / =z
    <<97, EQ>> \o LongestValue \o <<LF, 97, EQ, 50, LF>>  \* a=11..1 / a=2
}

(* "", "a", "ab", "b", "abc" *)
Keys == {<<>>, <<97>>, <<97, 98>>, <<98>>, <<97, 98, 99>>}

(* "", "x", "&", and a value no line can hold *)
Values == {<<>>, <<120>>, <<38>>, Rep(120, TC_LINE_MAX_SIZE)}

Init ==
    /\ InitCommon
    /\ \E f \in InputFiles : fs = [in |-> File(f), out |-> NoFile]

Next ==
    \/ \E path \in {"in", "out"} : Load(path)
    \/ \E k \in Keys : Get(k)
    \/ \E k \in Keys, v \in Values : Set(k, v)
    \/ Save("out")

Spec == Init /\ [][Next]_vars

----------------------------------------------------------------------------
(* Properties *)

ValueAddr(m, i) == header_read(line_get(i)) + EntryOffset(m, i)

AllLetters(sq) == Len(sq) > 0 /\ \A i \in 1..Len(sq) : isalpha(sq[i])
AllAlnum(sq) == Len(sq) > 0 /\ \A i \in 1..Len(sq) : isalpha(sq[i]) \/ isdigit(sq[i])

(* C1: tc_get_value on a loaded store returns the value of the first entry *)
(* whose key is exactly the key asked for, and NULL when no stored key is  *)
(* equal to it (runs that executed undefined behaviour left aside).        *)
C1_GetExact ==
    (op.name = "get" /\ proc = "running" /\ ~ub /\ last_load = "ok") =>
        IF Present(mem, config, op.key)
        THEN /\ ~ret.null
             /\ ret.addr = ValueAddr(mem, FirstMatch(mem, config, op.key))
        ELSE ret.null

(* C2: tc_set_value on a present key whose new line fits replaces the      *)
(* value of the entry with that key, so that tc_get_value returns it, and  *)
(* leaves size, keys, order and all other values as they were.             *)
C2_SetPresent ==
    [][(/\ op'.name = "set"
        /\ Len(op'.key) > 0 /\ Len(op'.value) > 0
        /\ Len(op'.key) + Len(op'.value) + 2 <= TC_LINE_MAX_SIZE
        /\ Present(mem, config, op'.key))
       => (/\ proc' = "running"
           /\ config' = config
           /\ \A i \in 0..(config.size - 1) :
                /\ EntryKey(mem', i) = EntryKey(mem, i)
                /\ EntryValue(mem', i) =
                     IF i = FirstMatch(mem, config, op'.key)
                     THEN op'.value ELSE EntryValue(mem, i)
           /\ \A r \in tc_get_value(mem', config', op'.key) :
                ~r.null /\ CStr(mem', r.addr) = op'.value)]_vars

(* C3: tc_set_value on an absent key appends it: size grows by one, the    *)
(* key is the last entry and its value is the one given.                   *)
C3_SetAbsentAppends ==
    [][(/\ op'.name = "set"
        /\ proc' = "running"
        /\ last_load = "ok"
        /\ Len(op'.key) > 0 /\ Len(op'.value) > 0
        /\ Len(op'.key) + Len(op'.value) + 2 <= TC_LINE_MAX_SIZE
        /\ config.size < TC_CONFIG_MAX_SIZE
        /\ ~Present(mem, config, op'.key))
       => (/\ config'.size = config.size + 1
           /\ EntryKey(mem', config.size) = op'.key
           /\ EntryValue(mem', config.size) = op'.value)]_vars

(* C4: a tc_set_value that returns gives NULL exactly when the key is not  *)
(* in the store or key and value do not fit a line.                        *)
C4_SetNullIff ==
    [][(op'.name = "set" /\ proc' = "running" /\ ~ub')
       => (ret'.null <=>
             (\/ ~Present(mem, config, op'.key)
              \/ Len(op'.key) + Len(op'.value) + 2 > TC_LINE_MAX_SIZE))]_vars

(* C5: a tc_set_value that returns NULL has changed nothing: the arena     *)
(* (every key, value and offset header) and config->size are as before.    *)
C5_FailedSetUnchanged ==
    [][(op'.name = "set" /\ proc' = "running" /\ ret'.null)
       => (mem' = mem /\ config' = config)]_vars

(* C5 witness: a tc_set_value on a stored key failed because the new value *)
(* does not fit the line.                                                  *)
C5_Witness ==
    /\ op.name = "set"
    /\ proc = "running"
    /\ ret.null
    /\ Present(mem, config, op.key)
    /\ Len(op.key) + Len(op.value) + 2 > TC_LINE_MAX_SIZE

(* C6: saving a store that a successful load produced and loading the file *)
(* written succeeds and gives the same entries in the same order.          *)
C6_RoundTrip ==
    [][(/\ last_load = "ok"
        /\ op.name = "save"
        /\ op'.name = "load"
        /\ op'.path = op.path)
       => (/\ proc' = "running"
           /\ ret'.ok
           /\ Entries(mem', config') = Entries(mem, config))]_vars

(* The file as its lines: the text between newlines. *)
RECURSIVE SplitLines(_)
SplitLines(file) ==
    IF file = <<>> THEN <<>>
    ELSE LET ends == {i \in 1..Len(file) : file[i] = LF}
             n == IF ends = {} THEN Len(file) + 1
                  ELSE CHOOSE i \in ends : \A j \in ends : i <= j
         IN <<SubSeq(file, 1, n - 1)>> \o SplitLines(SubSeq(file, n + 1, Len(file)))

IsBlankLine(l) == \A i \in 1..Len(l) : l[i] = SP
IsCommentLine(l) == Len(l) > 0 /\ l[1] = HASH

(* key=value with a key of letters and a value of letters and digits that *)
(* fits a line together with '=' and the terminator                       *)
IsPairLine(l) ==
    \E e \in 1..Len(l) :
        /\ l[e] = EQ
        /\ AllLetters(SubSeq(l, 1, e - 1))
        /\ AllAlnum(SubSeq(l, e + 1, Len(l)))
        /\ Len(l) + 1 <= TC_LINE_MAX_SIZE

PairOf(l) ==
    LET e == CHOOSE i \in 1..Len(l) : l[i] = EQ
    IN <<SubSeq(l, 1, e - 1), SubSeq(l, e + 1, Len(l))>>

PlainFile(file) ==
    \A i \in 1..Len(SplitLines(file)) :
        LET l == SplitLines(file)[i]
        IN IsBlankLine(l) \/ IsCommentLine(l) \/ IsPairLine(l)

RECURSIVE PairsOfLines(_)
PairsOfLines(ls) ==
    IF ls = <<>> THEN <<>>
    ELSE (IF IsPairLine(Head(ls)) THEN <<PairOf(Head(ls))>> ELSE <<>>)
         \o PairsOfLines(Tail(ls))

PairsOf(file) == PairsOfLines(SplitLines(file))

(* C7: after a successful load of a file of key=value lines, blank lines   *)
(* and comment lines, the entries are the pairs of the file in order, and  *)
(* when the keys are distinct tc_get_value of each key returns its value.  *)
C7_LoadPairs ==
    (/\ op.name = "load"
     /\ proc = "running"
     /\ ret.ok
     /\ PlainFile(fs[op.path].data))
    => LET pairs == PairsOf(fs[op.path].data) IN
       /\ Entries(mem, config) = pairs
       /\ (\A i, j \in 1..Len(pairs) : i # j => pairs[i][1] # pairs[j][1])
          => \A i \in 1..Len(pairs) :
               \A r \in tc_get_value(mem, config, pairs[i][1]) :
                  ~r.null /\ CStr(mem, r.addr) = pairs[i][2]

(* A file that is one line  key="content"  *)
QuotedFile(file, e, q) ==
    /\ e \in 1..Len(file) /\ q \in 1..Len(file)
    /\ file[e] = EQ
    /\ AllLetters(SubSeq(file, 1, e - 1))
    /\ e + 1 < q
    /\ file[e + 1] = 34
    /\ file[q] = 34
    /\ \A i \in (e + 2)..(q - 1) : file[i] \notin {34, LF, CR}
    /\ SubSeq(file, q + 1, Len(file)) \in {<<>>, <<LF>>}

(* C8: a value written between double quotes is accepted and stored with   *)
(* the quotes stripped and the content kept.                               *)
C8_QuotedValue ==
    \A e, q \in 1..Len(fs["in"].data) :
        (/\ op.name = "load" /\ op.path = "in"
         /\ QuotedFile(fs["in"].data, e, q)
         /\ q - 1 <= TC_LINE_MAX_SIZE)
        => (/\ proc = "running"
            /\ ret.ok
            /\ Entries(mem, config) =
                 << <<SubSeq(fs["in"].data, 1, e - 1),
                      SubSeq(fs["in"].data, e + 2, q - 1)>> >>)

RECURSIVE TrimSpaces(_)
TrimSpaces(sq) ==
    IF sq = <<>> THEN <<>>
    ELSE IF sq[Len(sq)] = SP THEN TrimSpaces(SubSeq(sq, 1, Len(sq) - 1))
    ELSE sq

(* v is the text of file from some position up to the first following     *)
(* '\r', '\n', '#' or end of buffer, its trailing spaces removed           *)
IsUnquotedText(file, v) ==
    \E s \in 1..Len(file) : \E e \in s..Len(file) :
        /\ \A j \in s..e : file[j] \notin {CR, LF, HASH, NUL}
        /\ (e = Len(file) \/ file[e + 1] \in {CR, LF, HASH, NUL})
        /\ v = TrimSpaces(SubSeq(file, s, e))

(* an entry whose line holds a key and its '=' *)
KeyedEntry(m, i) ==
    /\ EntryOffset(m, i) >= 2
    /\ EntryOffset(m, i) <= TC_LINE_MAX_SIZE
    /\ ReadByte(m, ValueAddr(m, i) - 1) = EQ

(* C9: after a successful load every stored value is the text of the file  *)
(* from the value's first character to the first '\r', '\n', '#' or end of *)
(* buffer with the trailing spaces removed; it is not empty and does not   *)
(* end with a space.                                                       *)
C9_UnquotedValue ==
    (op.name = "load" /\ proc = "running" /\ ret.ok)
    => \A i \in 0..(config.size - 1) :
         KeyedEntry(mem, i) =>
            LET v == EntryValue(mem, i) IN
            /\ v # <<>>
            /\ v[Len(v)] # SP
            /\ IsUnquotedText(fs[op.path].data, v)

(* the characters the specification lets a value start with *)
SupportedStart(c) == isalpha(c) \/ isdigit(c) \/ c = MINUS \/ c = DOT \/ c = 34

(* file is  key = c...  : a key of letters, '=', spaces, then c *)
ValueStartsAt(file, e, s) ==
    /\ e \in 1..Len(file) /\ s \in 1..Len(file)
    /\ e < s
    /\ file[e] = EQ
    /\ AllLetters(SubSeq(file, 1, e - 1))
    /\ \A i \in (e + 1)..(s - 1) : file[i] = SP
    /\ file[s] \notin {SP, TAB, CR, LF, HASH, EQ}

----------------------------------------------------------------------------
(* Key grammar *)

(* a letter, then letters, digits and underscores *)
IsKeyToken(sq) ==
    /\ Len(sq) > 0
    /\ isalpha(sq[1])
    /\ \A i \in 1..Len(sq) : isalpha(sq[i]) \/ isdigit(sq[i]) \/ sq[i] = UNDERSCORE

(* C11: a file  key=value  whose key is a letter followed by letters,      *)
(* digits and underscores loads as one entry with the whole token as its   *)
(* key, and a file whose first key position holds any other character      *)
(* does not load.                                                          *)
C11_KeyGrammar ==
    (op.name = "load" /\ op.path = "in" /\ proc = "running") =>
        LET file == fs["in"].data IN
        /\ \A e \in 1..Len(file) :
             LET key == SubSeq(file, 1, e - 1)
                 value == SubSeq(file, e + 1, Len(file))
             IN (/\ file[e] = EQ
                 /\ IsKeyToken(key)
                 /\ AllAlnum(value)
                 /\ Len(key) + Len(value) + 2 <= TC_LINE_MAX_SIZE)
                => (ret.ok /\ Entries(mem, config) = << <<key, value>> >>)
        /\ (/\ Len(file) > 0
            /\ file[1] \notin {SP, TAB, CR, LF, HASH, EQ}
            /\ ~isalpha(file[1]))
           => ~ret.ok

----------------------------------------------------------------------------
(* Capacity and slot bounds *)

(* the bytes of slot i: its header and its line *)
SlotBytes(i) == line_get(i)..(line_get(i) + TC_LINE_TOTAL_SIZE - 1)

(* the addresses a tc_set_value that returned non-NULL has stored to: the  *)
(* new value and its NUL, from the address returned                        *)
SetWrites(r, new_value) == r.addr..(r.addr + Len(new_value))

(* C12: a load of a file of exactly TC_CONFIG_MAX_SIZE pairs succeeds and  *)
(* of a file of more pairs fails; config->size never exceeds               *)
(* TC_CONFIG_MAX_SIZE; and no call stores to a slot of index               *)
(* TC_CONFIG_MAX_SIZE or more.                                             *)
C12_FixedCapacity ==
    [][/\ config'.size <= TC_CONFIG_MAX_SIZE
       /\ (/\ op'.name = "load"
           /\ proc' = "running"
           /\ PlainFile(fs[op'.path].data))
          => LET count == Len(PairsOf(fs[op'.path].data)) IN
             /\ count = TC_CONFIG_MAX_SIZE => ret'.ok
             /\ count > TC_CONFIG_MAX_SIZE => ~ret'.ok
       /\ (op'.name = "load" /\ fs[op'.path].exists /\ fs[op'.path].data # <<>>)
          => \A w \in ParseWrites(ParseStart(mem), fs[op'.path].data) :
                w.addr < line_get(TC_CONFIG_MAX_SIZE)
       /\ (op'.name = "set" /\ proc' = "running" /\ ~ub' /\ ~ret'.null)
          => \A a \in SetWrites(ret', op'.value) :
                a < line_get(TC_CONFIG_MAX_SIZE)]_vars

(* C13: every byte a load stores for an entry (header, key, '=', value and *)
(* NUL) lies inside the slot of that entry, and every byte a tc_set_value  *)
(* stores lies inside the slot of the entry it updates.                    *)
C13_LineSlotBound ==
    [][/\ (op'.name = "load" /\ fs[op'.path].exists /\ fs[op'.path].data # <<>>)
          => \A w \in ParseWrites(ParseStart(mem), fs[op'.path].data) :
                w.addr \in SlotBytes(w.slot)
       /\ (op'.name = "set" /\ proc' = "running" /\ ~ub' /\ ~ret'.null)
          => \E i \in 0..(config.size - 1) :
                /\ ret'.addr > header_read(line_get(i))
                /\ SetWrites(ret', op'.value) \subseteq SlotBytes(i)]_vars

----------------------------------------------------------------------------
(* Failed and repeated loads *)

(* C14: after a tc_load_config that returned false the config holds no     *)
(* pairs: its size is 0 and tc_get_value finds none of the file's keys.    *)
C14_FailedLoadEmpty ==
    (op.name = "load" /\ proc = "running" /\ ~ub /\ ~ret.ok
     /\ fs[op.path].exists /\ fs[op.path].data # <<>>)
    => /\ config.size = 0
       /\ \A k \in Keys : \A r \in tc_get_value(mem, config, k) : r.null

(* the file is a key of letters, then spaces, '=' and line ends only: the  *)
(* key has no value                                                        *)
KeyWithoutValue(file) ==
    \E n \in 1..Len(file) :
        /\ AllLetters(SubSeq(file, 1, n))
        /\ \A i \in (n + 1)..Len(file) : file[i] \in {SP, EQ, LF}
        /\ Cardinality({i \in (n + 1)..Len(file) : file[i] = EQ}) <= 1

(* the file is key, spaces, key=value: the first key has no '=' *)
KeyAfterKey(file) ==
    \E n, s, e \in 1..Len(file) :
        /\ n + 1 < s /\ s < e /\ e < Len(file)
        /\ AllLetters(SubSeq(file, 1, n))
        /\ \A i \in (n + 1)..(s - 1) : file[i] = SP
        /\ AllLetters(SubSeq(file, s, e - 1))
        /\ file[e] = EQ
        /\ AllAlnum(SubSeq(file, e + 1, Len(file)))

(* the file starts, after spaces, with '=' and a value: a value without key *)
ValueWithoutKey(file) ==
    \E e \in 1..Len(file) :
        /\ \A i \in 1..(e - 1) : file[i] = SP
        /\ file[e] = EQ
        /\ e < Len(file)
        /\ AllAlnum(SubSeq(file, e + 1, Len(file)))

(* the file is key= and its value on the next line *)
ValueOnNextLine(file) ==
    \E e \in 1..Len(file) :
        /\ AllLetters(SubSeq(file, 1, e - 1))
        /\ file[e] = EQ
        /\ e + 1 < Len(file)
        /\ file[e + 1] = LF
        /\ AllAlnum(SubSeq(file, e + 2, Len(file)))

(* C15: a load fails when a key has no '=' and value before the end of the *)
(* file or is followed by another key, and when a value comes without a    *)
(* key and '=' before it on its line.                                      *)
C15_KeyNeedsValue ==
    (/\ op.name = "load" /\ op.path = "in"
     /\ (\/ KeyWithoutValue(fs["in"].data)
         \/ KeyAfterKey(fs["in"].data)
         \/ ValueWithoutKey(fs["in"].data)
         \/ ValueOnNextLine(fs["in"].data)))
    => (proc = "running" /\ ~ret.ok)

----------------------------------------------------------------------------
(* Hot reload (tinyconfig.c:56-62): the configuration file changes on disk *)
(* and the program calls tc_load_config on it again.                       *)

HotFiles == {
    <<97, EQ, 49, LF>>,                        \* a=1
    <<97, 98, EQ, 50, LF>>,                    \* ab=2
    <<98, EQ, 120, LF, 97, EQ, 49, LF>>,       \* b=x / a=1
    <<97, EQ>> \o LongestValue \o <<LF>>,      \* a=11..1
    <<HASH, 99, LF>>,                          \* #c
    <<97, LF>>,                                \* a
    <<EQ, 122, LF>>                            \* =z
}

(* the file is rewritten by its owner *)
EditFile(path, data) ==
    /\ proc = "running"
    /\ fs[path] # File(data)
    /\ fs' = [fs EXCEPT ![path] = File(data)]
    /\ UNCHANGED <<mem, config, proc, ub, op, ret, last_load, other, open_files, heap>>

HotInit ==
    /\ InitCommon
    /\ \E f \in HotFiles : fs = [in |-> File(f), out |-> NoFile]

HotNext ==
    \/ Load("in")
    \/ \E f \in HotFiles : EditFile("in", f)
    \/ \E k \in Keys : Get(k)
    \/ Save("out")

HotSpec == HotInit /\ [][HotNext]_vars

(* what a program that has never loaded anything gets from the same file *)
FreshLoad(file) ==
    tc_load_config(ZeroBuffer, [buffer |-> "null", size |-> 0], file)

(* C16: a successful load on a config that was already loaded gives the    *)
(* store the same file gives a program that loads it first: the same       *)
(* entries, the same answers of tc_get_value and the same saved text; for  *)
(* a file of plain key=value lines these are the pairs of the file.        *)
C16_HotReload ==
    [][(/\ op'.name = "load"
        /\ fs' = fs
        /\ last_load = "ok"
        /\ proc' = "running"
        /\ ret'.ok)
       => \E fresh \in {FreshLoad(fs[op'.path])} :
            /\ config'.size = fresh.config.size
            /\ Entries(mem', config') = Entries(fresh.mem, fresh.config)
            /\ \A k \in Keys :
                 tc_get_value(mem', config', k)
                   = tc_get_value(fresh.mem, fresh.config, k)
            /\ tc_save_to_file(mem', config')
                 = tc_save_to_file(fresh.mem, fresh.config)
            /\ PlainFile(fs[op'.path].data)
                 => Entries(mem', config') = PairsOf(fs[op'.path].data)]_vars

(* C17: a tc_load_config of a file that cannot be opened or that holds no  *)
(* bytes returns false and leaves config->buffer, config->size and the     *)
(* arena as they were.                                                     *)
C17_UnreadableFile ==
    [][(/\ op'.name = "load"
        /\ fs' = fs
        /\ (~fs[op'.path].exists \/ fs[op'.path].data = <<>>))
       => (/\ proc' = "running"
           /\ ret' = RetBool(FALSE)
           /\ config' = config
           /\ mem' = mem)]_vars

(* C17 witness: a loaded store has survived the failed load of a file that *)
(* does not exist.                                                         *)
C17_Witness ==
    /\ op.name = "load"
    /\ ~fs[op.path].exists
    /\ proc = "running"
    /\ ret = RetBool(FALSE)
    /\ config.size > 0

----------------------------------------------------------------------------
(* Asserts, long values, the layout of a slot *)

(* C18: no call makes an assert of the library fail: the process is never  *)
(* aborted, whatever the file holds and whatever strings are passed.       *)
C18_NoAbort == proc # "aborted"

(* C19: a tc_set_value with a value longer than a line can hold succeeds,  *)
(* for a key that is stored and for a new key: tc_get_value then returns   *)
(* the whole value and the values of the other entries are as before.      *)
C19_LongValueSet ==
    [][(/\ op'.name = "set"
        /\ last_load = "ok"
        /\ ~ub
        /\ Len(op'.key) > 0
        /\ Len(op'.value) >= TC_LINE_MAX_SIZE)
       => (/\ proc' = "running"
           /\ ~ret'.null
           /\ \A r \in tc_get_value(mem', config', op'.key) :
                ~r.null /\ CStr(mem', r.addr) = op'.value
           /\ \A i \in 0..(config.size - 1) :
                EntryKey(mem, i) # op'.key
                  => EntryValue(mem', i) = EntryValue(mem, i))]_vars

(* C20: every entry's header is the length of its key plus one, the byte   *)
(* before the value is '=', the bytes before that are the key, and the     *)
(* line's NUL is inside the slot.                                          *)
C20_OffsetHeader ==
    (proc = "running" /\ ~ub) =>
        \A i \in 0..(config.size - 1) :
            LET key_start == header_read(line_get(i))
                offset == EntryOffset(mem, i)
            IN
            /\ offset >= 2
            /\ offset < TC_LINE_MAX_SIZE
            /\ ReadByte(mem, key_start + offset - 1) = EQ
            /\ \A k \in 0..(offset - 2) :
                 ReadByte(mem, key_start + k) \notin {EQ, NUL}
            /\ Len(CStr(mem, key_start)) < TC_LINE_MAX_SIZE

----------------------------------------------------------------------------
(* Duplicate keys *)

(* key=value with a key of letters and a value of letters and digits *)
IsKeyValueLine(l) ==
    \E e \in 1..Len(l) :
        /\ l[e] = EQ
        /\ AllLetters(SubSeq(l, 1, e - 1))
        /\ AllAlnum(SubSeq(l, e + 1, Len(l)))

RECURSIVE KeyValuesOfLines(_)
KeyValuesOfLines(ls) ==
    IF ls = <<>> THEN <<>>
    ELSE (IF IsKeyValueLine(Head(ls)) THEN <<PairOf(Head(ls))>> ELSE <<>>)
         \o KeyValuesOfLines(Tail(ls))

(* the file is made of key=value lines, blank lines and comments, and some *)
(* key is on two of its lines                                              *)
DuplicateKeyFile(file) ==
    /\ \A n \in 1..Len(SplitLines(file)) :
         LET l == SplitLines(file)[n]
         IN IsBlankLine(l) \/ IsCommentLine(l) \/ IsKeyValueLine(l)
    /\ \E i, j \in 1..Len(KeyValuesOfLines(SplitLines(file))) :
         /\ i < j
         /\ KeyValuesOfLines(SplitLines(file))[i][1]
              = KeyValuesOfLines(SplitLines(file))[j][1]

(* the lines  key=value\n  of a sequence of pairs *)
RECURSIVE LinesOfPairs(_)
LinesOfPairs(pairs) ==
    IF pairs = <<>> THEN <<>>
    ELSE Head(pairs)[1] \o <<EQ>> \o Head(pairs)[2] \o <<LF>>
         \o LinesOfPairs(Tail(pairs))

(* entry j has the key of an earlier entry *)
LaterOccurrence(m, cfg, j) ==
    /\ EntryKey(m, j) # <<>>
    /\ \E i \in 0..(j - 1) : EntryKey(m, i) = EntryKey(m, j)

(* C21: a successful load of a file with a key on several lines stores     *)
(* every occurrence as its own entry in file order, tc_get_value of a key  *)
(* returns the value of its first occurrence and tc_save_to_file writes    *)
(* all of them; a tc_set_value of a stored key changes its first           *)
(* occurrence, and no tc_set_value changes a later occurrence.             *)
C21_DuplicateKeys ==
    [][/\ (/\ op'.name = "load" /\ op'.path = "in" /\ fs' = fs
           /\ proc' = "running" /\ ret'.ok
           /\ DuplicateKeyFile(fs["in"].data))
          => LET pairs == KeyValuesOfLines(SplitLines(fs["in"].data)) IN
             /\ Entries(mem', config') = pairs
             /\ \A n \in 1..Len(pairs) :
                  \A r \in tc_get_value(mem', config', pairs[n][1]) :
                     /\ ~r.null
                     /\ \E f \in 1..n :
                          /\ pairs[f][1] = pairs[n][1]
                          /\ \A g \in 1..(f - 1) : pairs[g][1] # pairs[n][1]
                          /\ CStr(mem', r.addr) = pairs[f][2]
             /\ tc_save_to_file(mem', config').data = LinesOfPairs(pairs)
       /\ (op'.name = "set" /\ proc' = "running" /\ ~ub')
          => /\ \A j \in 0..(config.size - 1) :
                  LaterOccurrence(mem, config, j)
                    => /\ EntryKey(mem', j) = EntryKey(mem, j)
                       /\ EntryValue(mem', j) = EntryValue(mem, j)
             /\ (/\ \E j \in 0..(config.size - 1) :
                      LaterOccurrence(mem, config, j)
                        /\ EntryKey(mem, j) = op'.key
                 /\ ~ret'.null)
                => EntryValue(mem', FirstMatch(mem, config, op'.key)) = op'.value]_vars

----------------------------------------------------------------------------
(* Reads of the file buffer *)

(* C22: tc_parse_config never reads file_buffer beyond the NUL stored at   *)
(* index file_bytes_read, so a tc_load_config that starts with no          *)
(* undefined behaviour behind it ends with none, whatever the file holds.  *)
C22_NoOverread ==
    [][(op'.name = "load" /\ ~ub) => ~ub']_vars

----------------------------------------------------------------------------
(* Two stores in one program: `config` is loaded from the file in, `other` *)
(* from the file out.  Both tc_load_config calls point the store at the    *)
(* one static arena (tinyconfig.c:358, 393).                               *)

TwoStoreFiles == {
    <<97, EQ, 49, LF>>,                        \* a=1
    <<97, 98, EQ, 50, LF>>,                    \* ab=2
    <<98, EQ, 120, LF, 97, EQ, 49, LF>>,       \* b=x / a=1
    <<98, EQ, 120, LF, 97, EQ, 50, LF>>,       \* b=x / a=2
    <<HASH, 99, LF>>                           \* #c
}

TwoStoreInit ==
    /\ InitCommon
    /\ \E f, g \in TwoStoreFiles : fs = [in |-> File(f), out |-> File(g)]

TwoStoreNext ==
    \/ Load("in")
    \/ LoadOther("out")
    \/ \E k \in Keys : Get(k)

TwoStoreSpec == TwoStoreInit /\ [][TwoStoreNext]_vars

(* C23: a tc_load_config on another tc_config changes neither the size    *)
(* nor any key/value pair seen through a tc_config that was loaded before  *)
(* and is still in use.                                                    *)
C23_StoreIndependence ==
    [][(op'.name = "load_other" /\ last_load = "ok")
         => /\ config'.size = config.size
            /\ Entries(mem', config') = Entries(mem, config)]_vars

----------------------------------------------------------------------------
(* Streams and blocks.  A process that loads, runs out of memory on a      *)
(* load, and saves.                                                        *)

ResourceNext ==
    \/ \E path \in {"in", "out"} : Load(path)
    \/ LoadNoMemory("in")
    \/ \E k \in Keys, v \in Values : Set(k, v)
    \/ Save("out")

ResourceSpec == Init /\ [][ResourceNext]_vars

(* C24: when tc_load_config or tc_save_to_file has returned, every file it *)
(* opened is closed and the read buffer it allocated is freed, on every    *)
(* path: no stream is left open and no block is left allocated.            *)
C24_ResourcesReleased ==
    proc = "running" => (open_files = 0 /\ heap = 0)

====
